---------------------------- MODULE Spec2Model ----------------------------
(***************************************************************************)
(* Causal self-attention of nanogpt-burn (src/src/attention.rs): the       *)
(* single head (HeadConfig::init, Head::forward) and the multi-head        *)
(* wrapper (MultiHeadAttentionConfig::init, MultiHeadAttention::forward).  *)
(*                                                                         *)
(* Tensors of rank 3 are nested sequences t[b][i][j], indexed from 1 (the  *)
(* source indexes from 0: source position p is model position p + 1).      *)
(* Numbers are exact rationals <<n, d>> with d > 0 in lowest terms.  A     *)
(* panic of the tensor library (a shape check that fails) is the result    *)
(* record with ok = FALSE, naming the step that raised it.                 *)
(***************************************************************************)
EXTENDS Integers, Sequences, FiniteSets, TLC

(***************************************************************************)
(* Bounds of the model.                                                    *)
(***************************************************************************)
MaxDim == 3      \* block_size, n_embd, head_size, time and channels
MaxBatch == 1    \* batch_size and the batch of an input
MaxHeads == 2    \* n_layer and n_head
MaxSeed == 1     \* seeds of the parameter initializer, inputs and dropout

Dim == 1..MaxDim
Batch == 1..MaxBatch
Seed == 0..MaxSeed
Time == 1..(MaxDim + 1)    \* the time axis of an input may exceed block_size

(***************************************************************************)
(* Rational arithmetic.                                                    *)
(***************************************************************************)
Abs(n) == IF n < 0 THEN -n ELSE n

Max(a, b) == IF a >= b THEN a ELSE b

RECURSIVE GCD(_, _)
GCD(a, b) == IF b = 0 THEN a ELSE GCD(b, a % b)

RNorm(n, d) == LET g == GCD(Abs(n), d) IN <<n \div g, d \div g>>

RInt(n) == <<n, 1>>

RAdd(a, b) ==
    IF a[2] = b[2] /\ a[2] = 1 THEN <<a[1] + b[1], 1>>
    ELSE LET l == (a[2] \div GCD(a[2], b[2])) * b[2]
         IN  RNorm(a[1] * (l \div a[2]) + b[1] * (l \div b[2]), l)

RMul(a, b) ==
    IF a[2] = b[2] /\ a[2] = 1 THEN <<a[1] * b[1], 1>>
    ELSE LET g1 == GCD(Abs(a[1]), b[2])
             g2 == GCD(Abs(b[1]), a[2])
         IN  <<(a[1] \div g1) * (b[1] \div g2), (a[2] \div g2) * (b[2] \div g1)>>

RDiv(a, b) == RMul(a, <<b[2], b[1]>>)    \* b > 0

RECURSIVE RSum(_)
RSum(s) == IF s = <<>> THEN RInt(0) ELSE RAdd(Head(s), RSum(Tail(s)))

RECURSIVE Pow2(_)
Pow2(n) == IF n = 0 THEN 1 ELSE 2 * Pow2(n - 1)

(***************************************************************************)
(* Tensors and the results of fallible tensor operations.                  *)
(***************************************************************************)
Dims(t) == <<Len(t), Len(t[1]), Len(t[1][1])>>

Tensor3(B, T, C, f(_, _, _)) ==
    [b \in 1..B |-> [i \in 1..T |-> [j \in 1..C |-> f(b, i, j)]]]

Ok(t) == [ok |-> TRUE, at |-> "", t |-> t]

Fault(at) == [ok |-> FALSE, at |-> at, t |-> <<>>]

\* Index into an axis of size n that may be broadcast (size 1).
Bx(n, i) == IF n = 1 THEN 1 ELSE i

\* Shapes an element-wise binary operation accepts: equal, or 1, per axis.
Broadcastable(da, db) == \A k \in 1..3 : da[k] = db[k] \/ da[k] = 1 \/ db[k] = 1


(***************************************************************************)
(* Operations of the tensor library used by the source.                    *)
(***************************************************************************)
\* Tensor::ones(shape): an Int tensor of ones.
Ones(B, T, C) == Tensor3(B, T, C, LAMBDA b, i, j : 1)

\* The triangle of the other side: keeps the entries with i - j <= diagonal.
TrilMut(t, diagonal) ==
    Tensor3(Dims(t)[1], Dims(t)[2], Dims(t)[3],
            LAMBDA b, i, j : IF i - j <= diagonal THEN t[b][i][j] ELSE 0)

\* Tensor::tril(diagonal): keeps the entries with j - i <= diagonal, zeroes
\* the others.
Tril(t, diagonal) ==
    Tensor3(Dims(t)[1], Dims(t)[2], Dims(t)[3],
            LAMBDA b, i, j : IF j - i <= diagonal THEN t[b][i][j] ELSE 0)

\* Tensor::equal_elem(e): the Bool tensor of the entries equal to e.
EqualElem(t, e) ==
    Tensor3(Dims(t)[1], Dims(t)[2], Dims(t)[3], LAMBDA b, i, j : t[b][i][j] = e)

\* Tensor::transpose(): swaps the last two axes.
Transpose(t) ==
    Tensor3(Dims(t)[1], Dims(t)[3], Dims(t)[2], LAMBDA b, i, j : t[b][j][i])

\* The operator * of two tensors: ELEMENT-WISE multiplication, broadcasting
\* the axes of size 1; it panics on any other difference of shape.
Mul(a, b) ==
    LET da == Dims(a)
        db == Dims(b)
    IN  IF ~Broadcastable(da, db) THEN Fault("mul")
        ELSE Ok(Tensor3(Max(da[1], db[1]), Max(da[2], db[2]), Max(da[3], db[3]),
                        LAMBDA n, i, j :
                            RMul(a[Bx(da[1], n)][Bx(da[2], i)][Bx(da[3], j)],
                                 b[Bx(db[1], n)][Bx(db[2], i)][Bx(db[3], j)])))

\* Tensor::matmul: the batched matrix product, broadcasting the batch axis.
MatMul(a, b) ==
    LET da == Dims(a)
        db == Dims(b)
    IN  IF da[3] # db[2] \/ ~(da[1] = db[1] \/ da[1] = 1 \/ db[1] = 1)
        THEN Fault("matmul")
        ELSE Ok(Tensor3(Max(da[1], db[1]), da[2], db[3],
                        LAMBDA n, i, j :
                            RSum([c \in 1..da[3] |->
                                    RMul(a[Bx(da[1], n)][i][c],
                                         b[Bx(db[1], n)][c][j])])))

\* A score divided by sqrt(root): the pair of the undivided score and the
\* root, standing for v / sqrt(root) (sqrt(root) is irrational in general).
DivSqrt(t, root) ==
    Tensor3(Dims(t)[1], Dims(t)[2], Dims(t)[3],
            LAMBDA b, i, j : [v |-> t[b][i][j], root |-> root])

\* The constant the masked scores are overwritten with (-1.0e4).
MASK_FILL == -10000

FillElem == [v |-> RInt(MASK_FILL), root |-> 1]

\* Tensor::mask_fill(mask, value).  The method checks no shapes itself.  A
\* mask axis of size 1 is broadcast by every backend; a tensor axis of size
\* 1 under a larger mask axis is expanded by the backends that co-broadcast
\* (expand) and panics on the others; any other difference panics.
MaskFill(t, mask, value, expand) ==
    LET dt == Dims(t)
        dm == Dims(mask)
        fits == \A k \in 1..3 : dm[k] = dt[k] \/ dm[k] = 1
    IN  IF ~(fits \/ (expand /\ Broadcastable(dt, dm))) THEN Fault("mask_fill")
        ELSE Ok(Tensor3(Max(dt[1], dm[1]), Max(dt[2], dm[2]), Max(dt[3], dm[3]),
                        LAMBDA b, i, j :
                            IF mask[Bx(dm[1], b)][Bx(dm[2], i)][Bx(dm[3], j)]
                            THEN value
                            ELSE t[Bx(dt[1], b)][Bx(dt[2], i)][Bx(dt[3], j)]))

\* activation::softmax over one row: exp(z - m) of every entry, m the row's
\* maximum, divided by the sum of these.  The scores of the model are
\* integers far smaller than 1.0e4 in magnitude, so for a filled entry beside
\* an unfilled one exp(-1.0e4 - m) underflows to 0, and a row of filled
\* entries only has exp(0) = 1 everywhere.  Between unfilled entries
\* exp(d / sqrt(root)) is represented by 2^d, d the integer difference of the
\* undivided scores: positive, increasing and 1 at d = 0, as exp is.
SoftmaxRow(row) ==
    LET unfilled == {c \in 1..Len(row) : row[c] # FillElem}
        val(c) == row[c].v[1] \div row[c].v[2]
        m == CHOOSE c \in unfilled : \A d \in unfilled : val(c) >= val(d)
        e == [c \in 1..Len(row) |->
                IF unfilled = {} THEN RInt(1)
                ELSE IF c \notin unfilled THEN RInt(0)
                ELSE <<1, Pow2(val(m) - val(c))>>]
        sum == RSum(e)
    IN  [c \in 1..Len(row) |-> RDiv(e[c], sum)]

\* activation::softmax(t, 2): normalizes along the last axis.
Softmax(t) == [b \in 1..Len(t) |-> [i \in 1..Len(t[b]) |-> SoftmaxRow(t[b][i])]]

\* Tensor::cat(tensors, 2): concatenates along the last axis; panics on an
\* empty list and on tensors that differ on another axis.
Cat(ts) ==
    IF ts = <<>> THEN Fault("cat")
    ELSE IF \E n \in 1..Len(ts) :
                Dims(ts[n])[1] # Dims(ts[1])[1] \/ Dims(ts[n])[2] # Dims(ts[1])[2]
    THEN Fault("cat")
    ELSE Ok([b \in 1..Dims(ts[1])[1] |-> [i \in 1..Dims(ts[1])[2] |->
                LET RECURSIVE Join(_)
                    Join(n) == IF n > Len(ts) THEN <<>>
                               ELSE ts[n][b][i] \o Join(n + 1)
                IN  Join(1)]])

(***************************************************************************)
(* The layers of the neural-network library used by the source.            *)
(***************************************************************************)
\* A parameter drawn by the initializer: a function of the seed of the
\* random generator and of the position.
InitValue(seed, c, h) == (seed * c + h + (seed \div 2)) % 2

\* LinearConfig::new(d_input, d_output).init(device): weight (d_input,
\* d_output) and bias (d_output), both drawn by the initializer.
LinearConfig_init(d_input, d_output, seed) ==
    [weight |-> [c \in 1..d_input |-> [h \in 1..d_output |->
                    RInt(InitValue(seed, c, h))]],
     bias |-> [h \in 1..d_output |-> RInt(InitValue(seed + 1, h, 0))]]

\* Linear::forward: input.matmul(weight) + bias; panics when the last axis
\* of the input is not d_input.
Linear_forward(lin, x) ==
    LET prod == MatMul(x, <<lin.weight>>)
    IN  IF Dims(x)[3] # Len(lin.weight) THEN Fault("linear")
        ELSE Ok(Tensor3(Dims(x)[1], Dims(x)[2], Len(lin.bias),
                        LAMBDA b, i, h : RAdd(prod.t[b][i][h], lin.bias[h])))

\* The probabilities a dropout layer is configured with.
DropProbs == {<<0, 1>>, <<1, 2>>}

\* The Bernoulli draw of dropout for one element: a function of the state
\* of the random generator and of the position.
Keeps(rng, b, i, j) == (rng + b + i + j) % 2 = 0

\* Dropout::forward: the input itself when the backend tracks no gradients
\* or prob is 0; else the kept elements scaled by 1 / (1 - prob), the
\* others zeroed.
Dropout_forward(prob, t, ad_enabled, rng) ==
    IF ~ad_enabled \/ prob[1] = 0 THEN t
    ELSE Tensor3(Dims(t)[1], Dims(t)[2], Dims(t)[3],
                 LAMBDA b, i, j :
                     IF Keeps(rng, b, i, j)
                     THEN RDiv(t[b][i][j], <<prob[2] - prob[1], prob[2]>>)
                     ELSE RInt(0))

(***************************************************************************)
(* The single attention head.                                              *)
(***************************************************************************)
\* The configurations a head is built from, within the bounds.
HeadConfig ==
    [batch_size : Batch, block_size : Dim, n_embd : Dim, head_size : Dim,
     dropout : DropProbs]

\* HeadConfig::init.  seed is the state of the random generator the
\* initializer draws from; key, query and value are drawn one after another.
HeadConfig_init(cfg, seed) ==
    LET tril == Tril(Ones(cfg.batch_size, cfg.block_size, cfg.block_size), -1)
    IN  [key |-> LinearConfig_init(cfg.n_embd, cfg.head_size, seed),
         query |-> LinearConfig_init(cfg.n_embd, cfg.head_size, seed + 1),
         value |-> LinearConfig_init(cfg.n_embd, cfg.head_size, seed + 2),
         tril |-> EqualElem(tril, 0),
         dropout |-> cfg.dropout]

\* What a call of Head::forward leaves behind: the tensors it computed as
\* far as it got (<<>> for those it did not reach) and the output, or the
\* step that panicked.
HeadResult(ok, at, score, wei, t) ==
    [ok |-> ok, at |-> at, score |-> score, wei |-> wei, t |-> t]

\* Head::forward.  be is the backend the head is compiled for, rng the state
\* of the random generator dropout draws from.
Head_forward(head, x, be, rng) ==
    LET k == Linear_forward(head.key, x)
        q == Linear_forward(head.query, x)
        score == Mul(q.t, Transpose(k.t))
        masked == MaskFill(DivSqrt(score.t, Dims(k.t)[3]), head.tril, FillElem,
                           be.expand)
        wei == Softmax(masked.t)
        dropped == Dropout_forward(head.dropout, wei, be.ad_enabled, rng)
        v == Linear_forward(head.value, x)
        out == Mul(dropped, v.t)
    IN  IF ~k.ok THEN HeadResult(FALSE, "key", <<>>, <<>>, <<>>)
        ELSE IF ~score.ok THEN HeadResult(FALSE, "score", <<>>, <<>>, <<>>)
        ELSE IF ~masked.ok THEN HeadResult(FALSE, "mask_fill", score.t, <<>>, <<>>)
        ELSE IF ~out.ok THEN HeadResult(FALSE, "out", score.t, wei, <<>>)
        ELSE HeadResult(TRUE, "", score.t, wei, out.t)

(***************************************************************************)
(* The multi-head wrapper.                                                 *)
(***************************************************************************)
\* The configurations a multi-head attention is built from, within the
\* bounds.
MultiHeadAttentionConfig ==
    [n_layer : 1..MaxHeads, n_head : 1..MaxHeads, head_size : Dim, n_embd : Dim,
     dropout : DropProbs]

\* Those the program builds beside a given HeadConfig: the embedding width
\* and the dropout probability are the model's, shared by both.
ConfigsWith(hc) ==
    {cfg \in MultiHeadAttentionConfig :
        cfg.n_embd = hc.n_embd /\ cfg.dropout = hc.dropout}

\* MultiHeadAttentionConfig::init: n_layer heads from head_config, then the
\* projection from head_size * n_head to n_embd.
MultiHeadAttentionConfig_init(cfg, head_config, seed) ==
    [proj |-> LinearConfig_init(cfg.head_size * cfg.n_head, cfg.n_embd,
                                seed + 3 * cfg.n_layer),
     dropout |-> cfg.dropout,
     heads |-> [n \in 1..cfg.n_layer |->
                    HeadConfig_init(head_config, seed + 3 * (n - 1))]]

\* MultiHeadAttention::forward.  A head that panics ends the call.
MultiHeadAttention_forward(m, x, be, rng) ==
    LET inputs == [n \in 1..Len(m.heads) |-> Head_forward(m.heads[n], x, be, rng + n - 1)]
        cat == Cat([n \in 1..Len(m.heads) |-> inputs[n].t])
        proj == Linear_forward(m.proj, cat.t)
    IN  IF \E n \in 1..Len(m.heads) : ~inputs[n].ok
        THEN Fault("head")
        ELSE IF ~cat.ok THEN Fault("cat")
        ELSE IF ~proj.ok THEN Fault("proj")
        ELSE Ok(Dropout_forward(m.dropout, proj.t, be.ad_enabled,
                                rng + Len(m.heads)))

(***************************************************************************)
(* The inputs of the forward calls.                                        *)
(***************************************************************************)
\* An input of shape (B, T, C) with entries 0 or 1, chosen by seed.
Input(B, T, C, seed) ==
    Tensor3(B, T, C, LAMBDA b, i, c : RInt((seed * i + c + b + (seed \div 2)) % 2))

\* The channel widths of the inputs: the configured one and a wrong one.
Widths(n_embd) == {n_embd, n_embd + 1}

\* The backends: whether mask_fill co-broadcasts, and whether gradients are
\* tracked (dropout is active only then).
Backends ==
    {[expand |-> FALSE, ad_enabled |-> FALSE],
     [expand |-> TRUE, ad_enabled |-> FALSE],
     [expand |-> FALSE, ad_enabled |-> TRUE]}

(***************************************************************************)
(* The state: the module that was built and the last forward call on it.   *)
(***************************************************************************)
VARIABLES
    backend,        \* the backend the program is compiled for
    phase,          \* "new", "head" (a Head was built) or "mha"
    head_config,    \* the HeadConfig in use
    mha_config,     \* the MultiHeadAttentionConfig in use
    head,           \* the Head built by HeadConfig::init
    mha,            \* the MultiHeadAttention built
    called,         \* whether a forward call has returned or panicked
    x,              \* the input of that call
    rng,            \* the state of the random generator at that call
    res             \* what that call left behind

vars == <<backend, phase, head_config, mha_config, head, mha, called, x, rng, res>>

module == <<backend, phase, head_config, mha_config, head, mha>>

Init ==
    /\ backend \in Backends
    /\ phase = "new"
    /\ head_config \in HeadConfig
    /\ mha_config = <<>>
    /\ head = <<>>
    /\ mha = <<>>
    /\ called = FALSE
    /\ x = <<>>
    /\ rng = 0
    /\ res = <<>>

\* let head = head_config.init(&device)
InitHead ==
    /\ phase = "new"
    /\ \E seed \in Seed : head' = HeadConfig_init(head_config, seed)
    /\ phase' = "head"
    /\ UNCHANGED <<backend, head_config, mha_config, mha, called, x, rng, res>>

\* let mha = mha_config.init(&device, &head_config)
InitMultiHead ==
    /\ phase = "new"
    /\ \E cfg \in ConfigsWith(head_config), seed \in Seed :
          /\ mha_config' = cfg
          /\ mha' = MultiHeadAttentionConfig_init(cfg, head_config, seed)
    /\ phase' = "mha"
    /\ UNCHANGED <<backend, head_config, head, called, x, rng, res>>

\* The states of the random generator that a call may find: only an active
\* dropout consults it.
RngStates(prob) == IF backend.ad_enabled /\ prob[1] # 0 THEN Seed ELSE {0}

\* A forward that keeps the mask cut to the input it was last called on.
HeadForwardMut ==
    /\ phase = "head"
    /\ ~called
    /\ \E B \in Batch, T \in Time, C \in Widths(head_config.n_embd),
          seed \in Seed, r \in RngStates(head.dropout) :
          /\ x' = Input(B, T, C, seed)
          /\ rng' = r
          /\ res' = Head_forward(head, x', backend, rng')
          /\ head' = [head EXCEPT !.tril = EqualElem(Tril(Ones(B, T, T), -1), 0)]
    /\ called' = TRUE
    /\ UNCHANGED <<backend, phase, head_config, mha_config, mha>>

\* head.forward(x)
HeadForward ==
    /\ phase = "head"
    /\ ~called
    /\ \E B \in Batch, T \in Time, C \in Widths(head_config.n_embd),
          seed \in Seed, r \in RngStates(head.dropout) :
          /\ x' = Input(B, T, C, seed)
          /\ rng' = r
          /\ res' = Head_forward(head, x', backend, rng')
    /\ called' = TRUE
    /\ UNCHANGED module

\* mha.forward(x)
MultiHeadForward ==
    /\ phase = "mha"
    /\ ~called
    /\ \E B \in Batch, T \in Time, C \in Widths(head_config.n_embd),
          seed \in Seed, r \in RngStates(mha.dropout) :
          /\ x' = Input(B, T, C, seed)
          /\ rng' = r
          /\ res' = MultiHeadAttention_forward(mha, x', backend, rng')
    /\ called' = TRUE
    /\ UNCHANGED module

\* The caller drops the output (or recovers from the panic) and may call
\* forward again.
Drop ==
    /\ called
    /\ called' = FALSE
    /\ x' = <<>>
    /\ rng' = 0
    /\ res' = <<>>
    /\ UNCHANGED module

Next == InitHead \/ InitMultiHead \/ HeadForward \/ MultiHeadForward \/ Drop

Spec == Init /\ [][Next]_vars

\* The program that builds and calls a single head.
NextHead == InitHead \/ HeadForward \/ Drop

SpecHead == Init /\ [][NextHead]_vars

\* The program that builds and calls a multi-head attention.
NextMulti == InitMultiHead \/ MultiHeadForward \/ Drop

SpecMulti == Init /\ [][NextMulti]_vars

(***************************************************************************)
(* Vocabulary of the properties.                                           *)
(***************************************************************************)
HeadCalled == phase = "head" /\ called

MultiCalled == phase = "mha" /\ called

DropoutActive == backend.ad_enabled /\ head_config.dropout[1] # 0

\* An input the head is specified for: the configured batch and embedding
\* width, and a time axis within block_size.
ValidInput ==
    /\ Dims(x)[1] = head_config.batch_size
    /\ Dims(x)[2] <= head_config.block_size
    /\ Dims(x)[3] = head_config.n_embd

\* t with the entries of position j0 and the channels in S replaced (0 by
\* 1, 1 by 0) in every sequence of the batch; every other entry is kept.
Perturb(t, j0, S) ==
    Tensor3(Dims(t)[1], Dims(t)[2], Dims(t)[3],
            LAMBDA b, i, c : IF i = j0 /\ c \in S
                             THEN RInt(1 - t[b][i][c][1]) ELSE t[b][i][c])

\* The perturbations of x: a position that has a position before it, and
\* one channel or all of them.
Perturbations ==
    (2..Dims(x)[2]) \X ({{c} : c \in 1..Dims(x)[3]} \cup {1..Dims(x)[3]})

WellFormed(t) ==
    /\ Len(t) >= 1 /\ Len(t[1]) >= 1 /\ Len(t[1][1]) >= 1
    /\ \A b \in 1..Len(t) :
          /\ Len(t[b]) = Len(t[1])
          /\ \A i \in 1..Len(t[b]) : Len(t[b][i]) = Len(t[1][1])

(***************************************************************************)
(* C1.  Causality of Head::forward: after a call that returned, the same   *)
(* call on an input that differs from x only at one position j returns     *)
(* too, and its output agrees with the returned one at every position      *)
(* before j.                                                               *)
(***************************************************************************)
Causality ==
    (HeadCalled /\ res.ok) =>
        \A p \in Perturbations :
            LET res2 == Head_forward(head, Perturb(x, p[1], p[2]), backend, rng)
            IN  /\ res2.ok
                /\ \A b \in 1..Len(res.t), i \in 1..(p[1] - 1) :
                       res2.t[b][i] = res.t[b][i]

\* A call on a valid input of at least three positions where a change of
\* the input at the second position does change the weights and the output
\* of the third position, the output of the first position staying as is.
CausalityWitness ==
    /\ HeadCalled /\ res.ok /\ ValidInput /\ Dims(x)[2] >= 3
    /\ \E p \in Perturbations :
          /\ p[1] = 2
          /\ LET res2 == Head_forward(head, Perturb(x, p[1], p[2]), backend, rng)
             IN  /\ res2.ok
                 /\ res2.wei[1][3] # res.wei[1][3]
                 /\ res2.t[1][3] # res.t[1][3]
                 /\ res2.t[1][1] = res.t[1][1]

(***************************************************************************)
(* C2.  The mask of a head has shape (batch_size, block_size, block_size)  *)
(* and tril[b][i][j] is true exactly when j > i.                           *)
(***************************************************************************)
MaskIsStrictFuture ==
    phase = "head" =>
        /\ Dims(head.tril) = <<head_config.batch_size, head_config.block_size,
                               head_config.block_size>>
        /\ \A b \in 1..head_config.batch_size :
           \A i, j \in 1..head_config.block_size : head.tril[b][i][j] = (j > i)

(***************************************************************************)
(* C3.  Shape preservation: on a multi-head attention with as many heads   *)
(* as n_head and the head size of its heads, forward on a valid input      *)
(* returns a tensor of the shape of the input.                             *)
(***************************************************************************)
ConsistentConfig ==
    /\ mha_config.n_layer = mha_config.n_head
    /\ mha_config.head_size = head_config.head_size

ShapePreserved ==
    (MultiCalled /\ ConsistentConfig /\ ValidInput) =>
        (res.ok /\ Dims(res.t) = Dims(x))

(***************************************************************************)
(* C4.  A misconfiguration (head_size times the heads built differs from   *)
(* the input width of the projection) is rejected by init, so forward      *)
(* never runs on a misconfigured instance.                                 *)
(***************************************************************************)
NoForwardOnMisconfigured ==
    MultiCalled =>
        mha_config.head_size * Len(mha.heads) = Len(mha.proj.weight)

(***************************************************************************)
(* C5.  Row-stochastic attention: with dropout inactive, on a valid input, *)
(* the weights of every query position i over the key positions up to i    *)
(* sum to 1 and the weights of the later key positions are 0.              *)
(***************************************************************************)
RowStochastic ==
    (HeadCalled /\ ValidInput /\ ~DropoutActive /\ res.ok) =>
        \A b \in 1..Len(res.wei), i \in 1..Dims(x)[2] :
            /\ RSum([j \in 1..i |-> res.wei[b][i][j]]) = RInt(1)
            /\ \A j \in (i + 1)..Len(res.wei[b][i]) : res.wei[b][i][j] = RInt(0)

(***************************************************************************)
(* C6.  Single position: with dropout inactive, on a valid input of time   *)
(* 1, forward returns, the weight of the sole position is 1 and the output *)
(* is the value projection of the input.                                   *)
(***************************************************************************)
SinglePosition ==
    (HeadCalled /\ ValidInput /\ ~DropoutActive /\ Dims(x)[2] = 1) =>
        /\ res.ok
        /\ res.wei = Tensor3(Dims(x)[1], 1, 1, LAMBDA b, i, j : RInt(1))
        /\ res.t = Linear_forward(head.value, x).t

(***************************************************************************)
(* C7.  An input whose time axis exceeds block_size (batch and channels    *)
(* as configured) makes forward panic at the application of the mask.      *)
(***************************************************************************)
TooLongFailsAtMask ==
    (/\ HeadCalled
     /\ Dims(x)[1] = head_config.batch_size
     /\ Dims(x)[3] = head_config.n_embd
     /\ Dims(x)[2] > head_config.block_size) =>
        (~res.ok /\ res.at = "mask_fill")

(***************************************************************************)
(* C8.  On a valid input the raw scores are the batched matrix product of  *)
(* query and transposed key, of shape (batch, time, time), and the output  *)
(* is the batched matrix product of the weights and the values, of shape   *)
(* (batch, time, head_size).                                               *)
(***************************************************************************)
ScoresAndOutputAreMatrixProducts ==
    (HeadCalled /\ ValidInput) =>
        LET q == Linear_forward(head.query, x).t
            k == Linear_forward(head.key, x).t
            v == Linear_forward(head.value, x).t
            B == Dims(x)[1]
            T == Dims(x)[2]
        IN  /\ res.at # "score"
            /\ res.score = MatMul(q, Transpose(k)).t
            /\ Dims(res.score) = <<B, T, T>>
            /\ res.ok =>
                  /\ Dims(res.t) = <<B, T, head_config.head_size>>
                  /\ res.t = MatMul(Dropout_forward(head.dropout, res.wei,
                                        backend.ad_enabled, rng), v).t

(***************************************************************************)
(* C9.  Every multi-head attention that init returns has head_size times   *)
(* the number of its heads equal to the input width of its projection.     *)
(***************************************************************************)
ProjectionMatchesHeads ==
    phase = "mha" =>
        mha_config.head_size * Len(mha.heads) = Len(mha.proj.weight)

(***************************************************************************)
(* C10.  A forward call, whether it returns or panics, leaves the module   *)
(* (the projections, the mask, the heads and their order) as it was, and   *)
(* leaves either a well-formed tensor or a panic and no tensor.            *)
(***************************************************************************)
ForwardLeavesModule ==
    [][(~called /\ called') =>
          /\ module' = module
          /\ IF res'.ok THEN WellFormed(res'.t) ELSE res'.t = <<>>]_vars

\* A forward call of a multi-head attention that panicked.
ForwardPanicked == MultiCalled /\ ~res.ok

============================================================================
